---- MODULE Spec2Model ----
(***************************************************************************)
(* Model of examples/nanoChatGPT/train.py: the training loop of main() and *)
(* the loss estimator built by create_loss_estimator().                    *)
(*                                                                         *)
(* Tensors are abstracted by what the control flow can observe:            *)
(*   - a batch is [id, loss]: the position at which it was drawn from its  *)
(*     loader and the scalar loss written into it by the forward pass;     *)
(*   - the accumulated gradient (.grad of the parameters) is the sequence  *)
(*     of train batches whose backward pass added to it;                   *)
(*   - the model weights are the sequence of optimizer steps applied to    *)
(*     them, each recorded with its iteration, learning rate and gradient; *)
(*   - a mean of eval_iters losses is the pair <<sum, eval_iters>>.        *)
(***************************************************************************)
EXTENDS Integers, Sequences, FiniteSets, TLC

\* ------------------------------------------------------------------ bounds
MaxIters == 3
MaxIterNum == 1
MaxGA == 2
MaxEvalIters == 2

\* default best_val_loss of a fresh run
BigLoss == 1000000000

EvalIntervals == {1, 2}
LogIntervals == {1, 2}

\* the losses a forward pass may compute on a batch of the given loader. Only
\* validation losses reach a condition (the checkpoint test), where two values
\* give every outcome of the comparison; the loss of a train batch is printed
\* and plotted, and one value stands for it.
Losses(loader) == IF loader = "val" THEN {1, 2} ELSE {1}

VARIABLES
    config,         \* the hyperparameters of the run
    pc,             \* position of main()
    it,             \* loop variable of the training loop
    micro,          \* loop variable of the accumulation loop
    training,       \* model.training: TRUE in train mode, FALSE in eval mode
    lr,             \* param_group["lr"] of the optimizer
    grads,          \* accumulated gradient: ids of the batches backpropagated
    weights,        \* model parameters: the optimizer steps applied to them
    train_loader,   \* number of batches drawn from the train loader
    val_loader,     \* number of batches drawn from the validation loader
    next_batch,     \* the prefetched batch
    batch,          \* the batch of the last training forward pass
    est,            \* locals of the running estimate_loss call
    val_loss,       \* result of estimate_loss(model, val_loader)
    train_loss,     \* result of estimate_loss(model, train_loader)
    best_val_loss,
    train_losses,
    val_losses,
    disk,           \* out_dir: the checkpoint last written, or NoCkpt
    run,            \* number of times main() was started
    passes,         \* history of this run: every forward pass
    evals           \* history of this run: every evaluation

vars == <<config, pc, it, micro, training, lr, grads, weights, train_loader,
          val_loader, next_batch, batch, est, val_loss, train_loss,
          best_val_loss, train_losses, val_losses, disk, run, passes, evals>>

NoCkpt == [written |-> FALSE]
NoBatch == [id |-> 0, loss |-> 0]
NoEst == [loader |-> "none", k |-> 0, sum |-> 0]
NoLoss == <<0, 1>>

\* ----------------------------------------------------------------- helpers

\* a < b on means <<sum, n>>: the integer parts are compared first, then the
\* fractional parts
LossLess(a, b) ==
    LET qa == a[1] \div a[2]
        qb == b[1] \div b[2]
    IN  \/ qa < qb
        \/ qa = qb /\ (a[1] % a[2]) * b[2] < (b[1] % b[2]) * a[2]

\* losses.mean() of estimate_loss
Mean(sum, n) == <<sum, n>>

\* lr_scheduler(it): the schedule is built outside this file; its value at
\* iteration i is kept as the term lr_scheduler(i)
lr_scheduler(i) == [fn |-> "lr_scheduler", arg |-> i]

\* config["learning_rate"], the lr the optimizer is built with
learning_rate == [fn |-> "learning_rate", arg |-> 0]

\* next(dataloader): the batch at position n+1, its loss not yet computed
NextOf(n) == [id |-> n + 1, loss |-> 0]

\* model(batch): the forward pass writes the loss into the batch
Forward(b, l) == [b EXCEPT !.loss = l]

Configs ==
    [max_iters : 0..MaxIters,
     iter_num : 0..MaxIterNum,
     best_val_loss : {Mean(BigLoss, 1)},
     gradient_accumulation_steps : 1..MaxGA,
     eval_interval : EvalIntervals,
     log_interval : LogIntervals,
     eval_iters : 1..MaxEvalIters,
     always_save_checkpoint : BOOLEAN]

\* main() up to the first prefetch, with configuration c, model parameters w
Start(c, w, d, r) ==
    /\ config = c
    /\ pc = "for"
    /\ it = c.iter_num
    /\ micro = 0
    /\ training \in BOOLEAN
    /\ lr = learning_rate
    /\ grads = <<>>
    /\ weights = w
    /\ train_loader = 1
    /\ val_loader = 0
    /\ next_batch = NextOf(0)
    /\ batch = NoBatch
    /\ est = NoEst
    /\ val_loss = NoLoss
    /\ train_loss = NoLoss
    /\ best_val_loss = c.best_val_loss
    /\ train_losses = <<>>
    /\ val_losses = <<>>
    /\ disk = d
    /\ run = r
    /\ passes = <<>>
    /\ evals = <<>>

Init == \E c \in Configs : Start(c, <<>>, NoCkpt, 1)

\* the optimizer steps of the current run, in the order they were applied
RunSteps == SelectSeq(weights, LAMBDA s : s.run = run)

\* ----------------------------------------------------------------- actions

\* the range wrongly includes max_iters
InRange_Inclusive(i) == i <= config.max_iters

\* i is in range(iter_num, max_iters), i being at least iter_num
InRange(i) == i < config.max_iters

\* the new lr is computed and not written into the param groups
UpdateLR_Stale == UNCHANGED lr

\* lr = lr_scheduler(it); param_group["lr"] = lr for every group
UpdateLR == lr' = lr_scheduler(it)

\* the prefetch is missing: the same batch is used again
Prefetch_Reuse == UNCHANGED <<next_batch, train_loader>>

\* next_batch = next(train_loader)
Prefetch ==
    /\ next_batch' = NextOf(train_loader)
    /\ train_loader' = train_loader + 1

\* the gradient is not cleared after the step
ZeroGrad_Missing == UNCHANGED grads

\* optimizer.zero_grad(set_to_none=True)
ZeroGrad == grads' = <<>>

\* the evaluation is made at the end of each interval instead
IsEvalIter_Shifted(i) == (i + 1) % config.eval_interval = 0

\* it % eval_interval == 0
IsEvalIter(i) == i % config.eval_interval = 0

\* for it in range(iter_num, max_iters): one more iteration; set the lr
SetLR ==
    /\ pc = "for"
    /\ InRange(it)
    /\ UpdateLR
    /\ micro' = 0
    /\ pc' = "accum"
    /\ UNCHANGED <<config, it, training, grads, weights, train_loader,
                   val_loader, next_batch, batch, est, val_loss, train_loss,
                   best_val_loss, train_losses, val_losses, disk, run,
                   passes, evals>>

\* the range is exhausted: the loop ends and the curves are plotted
LoopExit ==
    /\ pc = "for"
    /\ ~InRange(it)
    /\ pc' = "done"
    /\ UNCHANGED <<config, it, micro, training, lr, grads, weights,
                   train_loader, val_loader, next_batch, batch, est, val_loss, train_loss,
                   best_val_loss, train_losses, val_losses, disk, run,
                   passes, evals>>

\* one pass of the accumulation loop: forward on the prefetched batch,
\* prefetch the next one, backward
MicroStep ==
    /\ pc = "accum"
    /\ micro < config.gradient_accumulation_steps
    /\ \E l \in Losses("train") :
          /\ batch' = Forward(next_batch, l)
          /\ passes' = Append(passes, [by |-> "train", loader |-> "train",
                                       id |-> next_batch.id,
                                       training |-> training, it |-> it,
                                       steps |-> Len(RunSteps),
                                       drawn |-> train_loader])
    /\ Prefetch
    /\ grads' = Append(grads, next_batch.id)
    /\ micro' = micro + 1
    /\ UNCHANGED <<config, pc, it, training, lr, weights, val_loader, est,
                   val_loss, train_loss, best_val_loss, train_losses, val_losses, disk,
                   run, evals>>

\* the accumulation loop is over: scaler.step(optimizer); scaler.update();
\* optimizer.zero_grad(). Clipping (grad_clip) rescales the gradient and does
\* not change which batches it accumulates.
OptimizerStep ==
    /\ pc = "accum"
    /\ micro >= config.gradient_accumulation_steps
    /\ weights' = Append(weights, [run |-> run, it |-> it, lr |-> lr,
                                   grads |-> grads])
    /\ ZeroGrad
    /\ pc' = "branch"
    /\ UNCHANGED <<config, it, micro, training, lr, train_loader, val_loader,
                   next_batch, batch, est, val_loss, train_loss, best_val_loss,
                   train_losses, val_losses, disk, run, passes, evals>>

\* estimate_loss(model, dataloader) is entered: model.eval(), losses = zeros
EstimateEnter(loader) ==
    /\ training' = FALSE
    /\ est' = [loader |-> loader, k |-> 0, sum |-> 0]

\* it % eval_interval == 0: val_loss = estimate_loss(model, val_loader)
EvalVal ==
    /\ pc = "branch"
    /\ IsEvalIter(it)
    /\ EstimateEnter("val")
    /\ pc' = "estimate"
    /\ UNCHANGED <<config, it, micro, lr, grads, weights, train_loader,
                   val_loader, next_batch, batch, val_loss, train_loss,
                   best_val_loss, train_losses, val_losses, disk, run,
                   passes, evals>>

\* one pass of the loop of estimate_loss: draw a batch, forward, keep the loss
EstimateBatch ==
    /\ pc = "estimate"
    /\ est.k < config.eval_iters
    /\ LET n == IF est.loader = "val" THEN val_loader ELSE train_loader
       IN  \E l \in Losses(est.loader) :
              /\ est' = [est EXCEPT !.k = @ + 1,
                                    !.sum = @ + Forward(NextOf(n), l).loss]
              /\ passes' = Append(passes, [by |-> "eval",
                                           loader |-> est.loader,
                                           id |-> NextOf(n).id,
                                           training |-> training, it |-> it,
                                           steps |-> Len(RunSteps),
                                           drawn |-> n + 1])
    /\ IF est.loader = "val"
       THEN val_loader' = val_loader + 1 /\ UNCHANGED train_loader
       ELSE train_loader' = train_loader + 1 /\ UNCHANGED val_loader
    /\ UNCHANGED <<config, pc, it, micro, training, lr, grads, weights,
                   next_batch, batch, val_loss, train_loss, best_val_loss,
                   train_losses, val_losses, disk, run, evals>>

\* estimate_loss returns without model.train()
EstimateExit_NoTrain ==
    /\ UNCHANGED training
    /\ est' = NoEst

\* model.train() at the end of estimate_loss; its locals are dropped
EstimateExit ==
    /\ training' = TRUE
    /\ est' = NoEst

\* estimate_loss returns: model.train(); return losses.mean()
EstimateReturn ==
    /\ pc = "estimate"
    /\ est.k >= config.eval_iters
    /\ EstimateExit
    /\ IF est.loader = "val"
       THEN /\ val_loss' = Mean(est.sum, config.eval_iters)
            /\ pc' = "eval_train"
            /\ UNCHANGED train_loss
       ELSE /\ train_loss' = Mean(est.sum, config.eval_iters)
            /\ pc' = "checkpoint"
            /\ UNCHANGED val_loss
    /\ UNCHANGED <<config, it, micro, lr, grads, weights, train_loader,
                   val_loader, next_batch, batch, best_val_loss, train_losses,
                   val_losses, disk, run, passes, evals>>

\* train_loss = estimate_loss(model, train_loader)
EvalTrain ==
    /\ pc = "eval_train"
    /\ EstimateEnter("train")
    /\ pc' = "estimate"
    /\ UNCHANGED <<config, it, micro, lr, grads, weights, train_loader,
                   val_loader, next_batch, batch, val_loss, train_loss,
                   best_val_loss, train_losses, val_losses, disk, run,
                   passes, evals>>

\* whether the evaluation updates best_val_loss
Improved == LossLess(val_loss, best_val_loss) \/ config.always_save_checkpoint

\* the checkpoint is written at iteration 0 too
Saves_AtStart == Improved

\* whether the evaluation writes the checkpoint
Saves == Improved /\ it > 0

\* the checkpoint dict and the saved model weights
Checkpoint(best) ==
    [written |-> TRUE,
     optimizer |-> [lr |-> lr, steps |-> Len(weights)],
     iter_num |-> it,
     best_val_loss |-> best,
     config |-> config,
     model |-> weights]

\* the losses are appended; the best loss is updated and the checkpoint
\* written; the iteration ends
RecordAndCheckpoint ==
    /\ pc = "checkpoint"
    /\ train_losses' = Append(train_losses, train_loss)
    /\ val_losses' = Append(val_losses, val_loss)
    /\ best_val_loss' = IF Improved THEN val_loss ELSE best_val_loss
    /\ disk' = IF Saves THEN Checkpoint(val_loss) ELSE disk
    /\ evals' = Append(evals, [it |-> it, steps |-> Len(RunSteps),
                               val_loss |-> val_loss,
                               best_before |-> best_val_loss,
                               saved |-> disk' # disk,
                               ckpt_iter |-> IF disk'.written
                                             THEN disk'.iter_num ELSE -1])
    /\ it' = it + 1
    /\ pc' = "for"
    /\ UNCHANGED <<config, micro, training, lr, grads, weights, train_loader,
                   val_loader, next_batch, batch, est, val_loss, train_loss,
                   run, passes>>

\* elif it % log_interval == 0: the loss of the last batch is logged
Log ==
    /\ pc = "branch"
    /\ ~IsEvalIter(it)
    /\ it % config.log_interval = 0
    /\ train_losses' = Append(train_losses, Mean(batch.loss, 1))
    /\ it' = it + 1
    /\ pc' = "for"
    /\ UNCHANGED <<config, micro, training, lr, grads, weights, train_loader,
                   val_loader, next_batch, batch, est, val_loss, train_loss,
                   best_val_loss, val_losses, disk, run, passes, evals>>

\* neither an evaluation nor a log iteration
NoLog ==
    /\ pc = "branch"
    /\ ~IsEvalIter(it)
    /\ it % config.log_interval # 0
    /\ it' = it + 1
    /\ pc' = "for"
    /\ UNCHANGED <<config, micro, training, lr, grads, weights, train_loader,
                   val_loader, next_batch, batch, est, val_loss, train_loss,
                   best_val_loss, train_losses, val_losses, disk, run,
                   passes, evals>>

\* the process is stopped and main() is started again from the checkpoint
\* on disk: iter_num and best_val_loss are those of the checkpoint
Resume ==
    /\ disk.written
    /\ run = 1
    /\ config' = [disk.config EXCEPT !.iter_num = disk.iter_num,
                                     !.best_val_loss = disk.best_val_loss]
    /\ pc' = "for"
    /\ it' = disk.iter_num
    /\ micro' = 0
    /\ training' \in BOOLEAN
    /\ lr' = disk.optimizer.lr
    /\ grads' = <<>>
    /\ weights' = disk.model
    /\ train_loader' = 1
    /\ val_loader' = 0
    /\ next_batch' = NextOf(0)
    /\ batch' = NoBatch
    /\ est' = NoEst
    /\ val_loss' = NoLoss
    /\ train_loss' = NoLoss
    /\ best_val_loss' = disk.best_val_loss
    /\ train_losses' = <<>>
    /\ val_losses' = <<>>
    /\ run' = run + 1
    /\ passes' = <<>>
    /\ evals' = <<>>
    /\ UNCHANGED disk

\* a step of main()
MainStep ==
    \/ SetLR
    \/ LoopExit
    \/ MicroStep
    \/ OptimizerStep
    \/ EvalVal
    \/ EstimateBatch
    \/ EstimateReturn
    \/ EvalTrain
    \/ RecordAndCheckpoint
    \/ Log
    \/ NoLog

Next == MainStep \/ Resume

Spec == Init /\ [][Next]_vars

\* ------------------------------------------------------------ properties

Max0(n) == IF n > 0 THEN n ELSE 0

IsTrainPass(p) == p.by = "train"
IsEvalPass(p) == p.by = "eval"

\* ids of the batches of the training passes of iteration i, in order
TrainIdsOf(i) ==
    LET ps == SelectSeq(passes, LAMBDA p : p.by = "train" /\ p.it = i)
    IN  [k \in 1..Len(ps) |-> ps[k].id]

\* number of passes estimate_loss made on loader l at iteration i
EvalPasses(l, i) ==
    Len(SelectSeq(passes, LAMBDA p : p.by = "eval" /\ p.loader = l /\ p.it = i))

RECURSIVE MinLoss(_, _)
\* the least of b and the losses of the sequence ls
MinLoss(b, ls) ==
    IF ls = <<>> THEN b
    ELSE LET m == MinLoss(b, SubSeq(ls, 1, Len(ls) - 1))
         IN  IF LossLess(ls[Len(ls)], m) THEN ls[Len(ls)] ELSE m

\* C1: a run of main() performs exactly max(0, max_iters - iter_num)
\* optimizer steps, one per iteration iter_num .. max_iters-1 in increasing
\* order, and then the loop ends: the steps taken so far are those of the
\* first iterations, main() can always take a step until it is done, and
\* when it is done the count is max(0, max_iters - iter_num), whatever the
\* losses, the intervals and the checkpoints were.
C1_FixedSteps ==
    /\ \A i \in 1..Len(RunSteps) : RunSteps[i].it = config.iter_num + i - 1
    /\ Len(RunSteps) <= Max0(config.max_iters - config.iter_num)
    /\ pc = "done" => Len(RunSteps) = Max0(config.max_iters - config.iter_num)
    /\ pc # "done" => ENABLED MainStep

C1_Witness ==
    /\ pc = "done"
    /\ run = 1
    /\ Len(RunSteps) = 3
    /\ disk.written
    /\ Len(train_losses) > Len(val_losses)

\* C2: at every optimizer step the gradient holds exactly the
\* gradient_accumulation_steps batches of the training passes of that
\* iteration, and the gradient is empty from the step until the first
\* backward pass of the next iteration (so also during an evaluation).
C2_Accumulation ==
    /\ \A i \in 1..Len(RunSteps) :
          /\ Len(RunSteps[i].grads) = config.gradient_accumulation_steps
          /\ RunSteps[i].grads = TrainIdsOf(RunSteps[i].it)
    /\ pc = "accum" => grads = TrainIdsOf(it) /\ Len(grads) = micro
    /\ pc # "accum" => grads = <<>>

C2_Witness ==
    /\ Len(RunSteps) >= 2
    /\ config.gradient_accumulation_steps = 2
    /\ Len(evals) >= 1
    /\ config.iter_num = 0
    /\ RunSteps[2].grads = <<3, 5>>

\* C3: an evaluation is performed at iteration it if and only if
\* it % eval_interval = 0, after the optimizer step of that iteration; each
\* evaluation appends one value to val_losses; between two consecutive
\* evaluations exactly eval_interval optimizer steps are taken.
C3_Periodic ==
    /\ \A j \in config.iter_num..(it - 1) :
          (j % config.eval_interval = 0) <=>
              (\E i \in 1..Len(evals) : evals[i].it = j)
    /\ \A i \in 1..Len(evals) :
          /\ evals[i].it % config.eval_interval = 0
          /\ evals[i].steps = evals[i].it - config.iter_num + 1
          /\ i > 1 => evals[i].steps - evals[i - 1].steps = config.eval_interval
    /\ Len(val_losses) = Len(evals)
    /\ \A i \in 1..Len(evals) : val_losses[i] = evals[i].val_loss
    /\ \A i \in 1..Len(passes) :
          IsEvalPass(passes[i]) =>
              /\ passes[i].it % config.eval_interval = 0
              /\ passes[i].steps = passes[i].it - config.iter_num + 1

C3_Witness ==
    /\ Len(evals) >= 2
    /\ config.eval_interval = 2
    /\ evals[2].steps = 3

\* C4 (as claimed): at every evaluation a checkpoint is written if and only
\* if the validation loss is strictly lower than best_val_loss as it stood
\* before the evaluation.
C4_SavedIffImproved ==
    \A i \in 1..Len(evals) :
        evals[i].saved <=> LossLess(evals[i].val_loss, evals[i].best_before)

\* C4 (amended): at every evaluation a checkpoint is written if and only if
\* the iteration is greater than 0 and either the validation loss is
\* strictly lower than best_val_loss as it stood before the evaluation or
\* always_save_checkpoint is set.
C4_SavedIffImprovedLater ==
    \A i \in 1..Len(evals) :
        evals[i].saved <=>
            /\ evals[i].it > 0
            /\ \/ LossLess(evals[i].val_loss, evals[i].best_before)
               \/ config.always_save_checkpoint

C4_Witness ==
    /\ Len(evals) >= 3
    /\ ~config.always_save_checkpoint
    /\ evals[1].it = 0
    /\ LossLess(evals[1].val_loss, evals[1].best_before)
    /\ ~evals[1].saved
    /\ evals[2].saved
    /\ ~evals[3].saved

\* C5: every checkpoint records the iteration at which it was written, and
\* best_val_loss is, after every evaluation, the least of the initial
\* best_val_loss and the validation losses of all evaluations of the run.
C5_BestIsMin ==
    /\ Len(evals) > 0 =>
          best_val_loss = MinLoss(config.best_val_loss, val_losses)
    /\ \A i \in 1..Len(evals) :
          evals[i].saved => evals[i].ckpt_iter = evals[i].it

\* C6: when a run is resumed from the checkpoint written at iteration k with
\* iter_num = k, the optimizer steps applied to the model over both runs are
\* those of the iterations 0 .. max_iters-1, each once.
C6_ResumeFixedSteps ==
    (run = 2 /\ pc = "done" /\ weights # <<>> /\ weights[1].it = 0) =>
        /\ Len(weights) = config.max_iters
        /\ \A i \in 1..Len(weights) : weights[i].it = i - 1

\* C7: during the forward/backward passes of iteration it and at its
\* optimizer step the learning rate is lr_scheduler(it).
C7_ScheduledLR ==
    /\ pc = "accum" => lr = lr_scheduler(it)
    /\ \A i \in 1..Len(RunSteps) : RunSteps[i].lr = lr_scheduler(RunSteps[i].it)

C7_Witness ==
    /\ Len(RunSteps) >= 2
    /\ RunSteps[2].it = 1
    /\ RunSteps[2].lr = lr_scheduler(1)
    /\ lr = lr_scheduler(2)
    /\ pc = "accum"
    /\ micro = 1

\* what estimate_loss must leave alone
EstimateFrame == <<weights, grads, lr, it, micro, best_val_loss, next_batch,
                   batch, disk, train_losses, val_losses>>

\* C8: estimate_loss draws exactly eval_iters batches from the loader it is
\* given, runs all its forward passes in evaluation mode, changes neither
\* the weights, the gradient, the optimizer, the iteration nor best_val_loss,
\* and returns with the model in training mode; every training pass that
\* follows an evaluation runs in training mode.
C8_EstimateLoss ==
    /\ [](/\ \A i \in 1..Len(passes) :
               /\ IsEvalPass(passes[i]) => ~passes[i].training
               /\ (IsTrainPass(passes[i]) /\ \E j \in 1..(i - 1) : IsEvalPass(passes[j]))
                     => passes[i].training
          /\ pc = "estimate" =>
               /\ ~training
               /\ est.k <= config.eval_iters
               /\ EvalPasses(est.loader, it) = est.k
          /\ pc \in {"eval_train", "checkpoint"} =>
               /\ training
               /\ EvalPasses("val", it) = config.eval_iters
          /\ pc = "checkpoint" => EvalPasses("train", it) = config.eval_iters
          /\ \A i \in 1..Len(evals) :
               /\ EvalPasses("val", evals[i].it) = config.eval_iters
               /\ EvalPasses("train", evals[i].it) = config.eval_iters
          /\ val_loader = Len(SelectSeq(passes, LAMBDA p : p.by = "eval" /\ p.loader = "val")))
    /\ [][((pc = "estimate" \/ pc' = "estimate") /\ run' = run)
             => UNCHANGED EstimateFrame]_vars

C8_Witness ==
    /\ Len(evals) >= 1
    /\ config.eval_iters = 2
    /\ pc = "accum"
    /\ micro = 1
    /\ passes[Len(passes)].by = "train"
    /\ passes[Len(passes)].training
    /\ ~passes[1].training
    /\ passes[1].by = "train"

\* C9: every training pass uses a batch drawn from the train loader before
\* the pass; the training passes use the batches in the order they were
\* drawn, each once; no batch drawn by an evaluation is trained on; the
\* train loader is drawn from 1 + (training passes) + (evaluation passes on
\* it) times, which at the end of a run of N iterations and E evaluations is
\* 1 + N*gradient_accumulation_steps + E*eval_iters, the prefetched batch
\* being used by no pass.
C9_Prefetch ==
    /\ \A i \in 1..Len(passes) :
          IsTrainPass(passes[i]) =>
              /\ passes[i].id >= 1
              /\ passes[i].id <= passes[i].drawn
              /\ \A j \in 1..(i - 1) :
                    /\ IsTrainPass(passes[j]) => passes[j].id < passes[i].id
                    /\ passes[j].loader = "train" => passes[j].id # passes[i].id
              /\ \A j \in (i + 1)..Len(passes) :
                    passes[j].loader = "train" => passes[j].id # passes[i].id
    /\ train_loader = 1 + Len(SelectSeq(passes, LAMBDA p : p.loader = "train"))
    /\ next_batch.id <= train_loader
    /\ \A i \in 1..Len(passes) :
          passes[i].loader = "train" => passes[i].id # next_batch.id
    /\ pc = "done" =>
          train_loader = 1 + Len(RunSteps) * config.gradient_accumulation_steps
                           + Len(evals) * config.eval_iters

C9_Witness ==
    /\ pc = "done"
    /\ Len(RunSteps) = 3
    /\ Len(evals) = 2
    /\ config.gradient_accumulation_steps = 2
    /\ config.eval_iters = 2
    /\ train_loader = 11
    /\ next_batch.id = 9

====
